---- MODULE Spec2Model ----
(***************************************************************************)
(* Model of backend/app.py of PredictMovieName: the POST /api/identify     *)
(* handler identify_movie, the prompt builder build_llm_prompt, and the    *)
(* json.loads / IdentifyResponse stages the handler runs on the upstream   *)
(* reply.                                                                  *)
(*                                                                         *)
(* Text is a sequence of tokens.  A token is a record [t, s, n]: t is the  *)
(* token kind, s its characters (a sequence of strings) and n its numeric  *)
(* value.  Numbers: an "int" token holds the integer, a "float" token      *)
(* holds hundredths (87 is 0.87).                                          *)
(***************************************************************************)
EXTENDS Integers, Sequences, FiniteSets, TLC

\* ------------------------------------------------------------------ bounds
MaxPlotLen == 2
MaxRequests == 2

\* ------------------------------------------------------------------ tokens
Tok(kind, chars, num) == [t |-> kind, s |-> chars, n |-> num]
Lit(str) == Tok("lit", <<str>>, 0)
Name(str) == Tok("name", <<str>>, 0)
Chr(c) == Tok("chr", <<c>>, 0)
Ws(c) == Tok("ws", <<c>>, 0)
P(c) == Tok(c, <<>>, 0)
StrTok(chars) == Tok("str", chars, 0)
IntTok(i) == Tok("int", <<>>, i)
FloatTok(h) == Tok("float", <<>>, h)

\* ------------------------------------------------------------ JSON values
JVal(kind, chars, num, its, mems) ==
  [k |-> kind, s |-> chars, n |-> num, items |-> its, members |-> mems]
JNull == JVal("null", <<>>, 0, <<>>, <<>>)
JBool(b) == JVal("bool", <<>>, IF b THEN 1 ELSE 0, <<>>, <<>>)
JStr(chars) == JVal("str", chars, 0, <<>>, <<>>)
JInt(i) == JVal("int", <<>>, i, <<>>, <<>>)
JFloat(h) == JVal("float", <<>>, h, <<>>, <<>>)
JArr(its) == JVal("arr", <<>>, 0, its, <<>>)
JObj(mems) == JVal("obj", <<>>, 0, <<>>, mems)

\* dict[key] = val : an existing key keeps its position and takes the new
\* value, a new key is appended (Python dict semantics, used by json.loads).
RECURSIVE DictSet(_, _, _)
DictSet(mems, key, val) ==
  IF mems = <<>> THEN <<[key |-> key, val |-> val]>>
  ELSE IF Head(mems).key = key
       THEN <<[key |-> key, val |-> val]>> \o Tail(mems)
       ELSE <<Head(mems)>> \o DictSet(Tail(mems), key, val)

HasKey(mems, key) == \E i \in 1..Len(mems) : mems[i].key = key
DictGet(mems, key) ==
  mems[CHOOSE i \in 1..Len(mems) : mems[i].key = key].val

\* ---------------------------------------------------------------- strip()
IsWs(tok) == tok.t = "ws"

RECURSIVE LStrip(_)
LStrip(text) ==
  IF text # <<>> /\ IsWs(Head(text)) THEN LStrip(Tail(text)) ELSE text

RECURSIVE RStrip(_)
RStrip(text) ==
  IF text # <<>> /\ IsWs(text[Len(text)])
  THEN RStrip(SubSeq(text, 1, Len(text) - 1)) ELSE text

Strip(text) == RStrip(LStrip(text))

\* ------------------------------------------------------------ json.loads
RECURSIVE SkipWs(_, _)
SkipWs(text, i) ==
  IF i <= Len(text) /\ IsWs(text[i]) THEN SkipWs(text, i + 1) ELSE i

PFail == [ok |-> FALSE, val |-> JNull, next |-> 0]
POk(v, nxt) == [ok |-> TRUE, val |-> v, next |-> nxt]

RECURSIVE ParseValue(_, _)
RECURSIVE ParseItems(_, _, _)
RECURSIVE ParseMembers(_, _, _)

\* the elements of an array, the cursor on the first token of an element
ParseItems(text, i, acc) ==
  LET r == ParseValue(text, i) IN
  IF ~r.ok THEN PFail
  ELSE LET j == SkipWs(text, r.next) IN
       IF j > Len(text) THEN PFail
       ELSE IF text[j].t = ","
            THEN ParseItems(text, SkipWs(text, j + 1), Append(acc, r.val))
            ELSE IF text[j].t = "]"
                 THEN POk(JArr(Append(acc, r.val)), j + 1)
                 ELSE PFail

\* the members of an object, the cursor on the first token of a key
ParseMembers(text, i, acc) ==
  IF i > Len(text) \/ text[i].t # "str" THEN PFail
  ELSE LET c == SkipWs(text, i + 1) IN
       IF c > Len(text) \/ text[c].t # ":" THEN PFail
       ELSE LET r == ParseValue(text, SkipWs(text, c + 1)) IN
            IF ~r.ok THEN PFail
            ELSE LET j == SkipWs(text, r.next)
                     acc2 == DictSet(acc, text[i].s, r.val) IN
                 IF j > Len(text) THEN PFail
                 ELSE IF text[j].t = ","
                      THEN ParseMembers(text, SkipWs(text, j + 1), acc2)
                      ELSE IF text[j].t = "}"
                           THEN POk(JObj(acc2), j + 1)
                           ELSE PFail

ParseValue(text, i) ==
  IF i > Len(text) THEN PFail
  ELSE LET tok == text[i] IN
    CASE tok.t = "str" -> POk(JStr(tok.s), i + 1)
      [] tok.t = "int" -> POk(JInt(tok.n), i + 1)
      [] tok.t = "float" -> POk(JFloat(tok.n), i + 1)
      [] tok.t = "true" -> POk(JBool(TRUE), i + 1)
      [] tok.t = "false" -> POk(JBool(FALSE), i + 1)
      [] tok.t = "null" -> POk(JNull, i + 1)
      [] tok.t = "[" ->
           LET j == SkipWs(text, i + 1) IN
           IF j <= Len(text) /\ text[j].t = "]" THEN POk(JArr(<<>>), j + 1)
           ELSE ParseItems(text, j, <<>>)
      [] tok.t = "{" ->
           LET j == SkipWs(text, i + 1) IN
           IF j <= Len(text) /\ text[j].t = "}" THEN POk(JObj(<<>>), j + 1)
           ELSE ParseMembers(text, j, <<>>)
      [] OTHER -> PFail

\* json.loads(s): one value, whitespace allowed around it, nothing after it;
\* ok = FALSE is json.JSONDecodeError
json_loads_objects_only(text) ==
  LET r == ParseValue(text, SkipWs(text, 1)) IN
  IF r.ok /\ r.val.k = "obj" /\ SkipWs(text, r.next) = Len(text) + 1
  THEN [ok |-> TRUE, val |-> r.val]
  ELSE [ok |-> FALSE, val |-> JNull]

json_loads(text) ==
  LET r == ParseValue(text, SkipWs(text, 1)) IN
  IF r.ok /\ SkipWs(text, r.next) = Len(text) + 1
  THEN [ok |-> TRUE, val |-> r.val]
  ELSE [ok |-> FALSE, val |-> JNull]

\* ------------------------------------------------- Python str() / float()
Digit(d) ==
  CASE d = 0 -> "0" [] d = 1 -> "1" [] d = 2 -> "2" [] d = 3 -> "3"
    [] d = 4 -> "4" [] d = 5 -> "5" [] d = 6 -> "6" [] d = 7 -> "7"
    [] d = 8 -> "8" [] d = 9 -> "9"

IsDigit(c) == c \in {"0", "1", "2", "3", "4", "5", "6", "7", "8", "9"}
DigitVal(c) == CHOOSE d \in 0..9 : Digit(d) = c

RECURSIVE Digits(_)
Digits(i) == IF i < 10 THEN <<Digit(i)>> ELSE Digits(i \div 10) \o <<Digit(i % 10)>>

Abs(i) == IF i < 0 THEN 0 - i ELSE i
Sign(i) == IF i < 0 THEN <<"-">> ELSE <<>>

\* str(i) of a Python int
IntToStr(i) == Sign(i) \o Digits(Abs(i))

\* str(x) of a Python float x = h / 100 (shortest repr, at least one
\* fractional digit)
FloatToStr(h) ==
  LET a == Abs(h)
      fp == a % 100
  IN Sign(h) \o Digits(a \div 100) \o <<".">> \o
     (IF fp % 10 = 0 THEN <<Digit(fp \div 10)>>
      ELSE <<Digit(fp \div 10), Digit(fp % 10)>>)

RECURSIVE DigitsVal(_, _)
DigitsVal(chars, acc) ==
  IF chars = <<>> THEN acc
  ELSE DigitsVal(Tail(chars), 10 * acc + DigitVal(Head(chars)))

AllDigits(chars) ==
  /\ chars # <<>>
  /\ \A i \in 1..Len(chars) : IsDigit(chars[i])

\* float(s) of a Python str: [-]digits[.digits], in hundredths; ok = FALSE
\* is ValueError.  (Exponents, inf/nan and more than two fractional digits
\* are outside the inputs of this model.)
StrToFloat(chars) ==
  LET neg == chars # <<>> /\ chars[1] = "-"
      body == IF neg THEN Tail(chars) ELSE chars
      dots == {i \in 1..Len(body) : body[i] = "."}
      bad == [ok |-> FALSE, n |-> 0]
      sgn == IF neg THEN -1 ELSE 1
  IN IF dots = {}
     THEN IF AllDigits(body)
          THEN [ok |-> TRUE, n |-> sgn * 100 * DigitsVal(body, 0)] ELSE bad
     ELSE IF Cardinality(dots) # 1 THEN bad
     ELSE LET d == CHOOSE i \in dots : TRUE
              ip == SubSeq(body, 1, d - 1)
              fp == SubSeq(body, d + 1, Len(body))
          IN IF AllDigits(ip) /\ AllDigits(fp) /\ Len(fp) <= 2
             THEN [ok |-> TRUE,
                   n |-> sgn * (100 * DigitsVal(ip, 0) +
                         (IF Len(fp) = 1 THEN 10 * DigitsVal(fp, 0)
                          ELSE DigitsVal(fp, 0)))]
             ELSE bad

\* ------------------------------------------------ IdentifyResponse fields
\* pydantic's validator of a str field.  pydantic 1.x turns int, float and
\* bool into their str(); pydantic 2.x rejects them.  v1 says which of the
\* two the deployment has installed.
str_validator_null_as_empty(v, v1) ==
  CASE v.k = "str" -> [ok |-> TRUE, s |-> v.s]
    [] v.k = "null" -> [ok |-> TRUE, s |-> <<>>]
    [] v.k = "int" /\ v1 -> [ok |-> TRUE, s |-> IntToStr(v.n)]
    [] v.k = "float" /\ v1 -> [ok |-> TRUE, s |-> FloatToStr(v.n)]
    [] v.k = "bool" /\ v1 ->
         [ok |-> TRUE, s |-> IF v.n = 1 THEN <<"True">> ELSE <<"False">>]
    [] OTHER -> [ok |-> FALSE, s |-> <<>>]

str_validator(v, v1) ==
  CASE v.k = "str" -> [ok |-> TRUE, s |-> v.s]
    [] v.k = "int" /\ v1 -> [ok |-> TRUE, s |-> IntToStr(v.n)]
    [] v.k = "float" /\ v1 -> [ok |-> TRUE, s |-> FloatToStr(v.n)]
    [] v.k = "bool" /\ v1 ->
         [ok |-> TRUE, s |-> IF v.n = 1 THEN <<"True">> ELSE <<"False">>]
    [] OTHER -> [ok |-> FALSE, s |-> <<>>]

Clamp(h) == IF h < 0 THEN 0 ELSE IF h > 100 THEN 100 ELSE h

\* pydantic's validator of a float field (both major versions, default
\* lax mode): float as is, int and bool converted, str through float()
float_validator_clamped(v) ==
  CASE v.k = "float" -> [ok |-> TRUE, n |-> Clamp(v.n)]
    [] v.k = "int" -> [ok |-> TRUE, n |-> Clamp(100 * v.n)]
    [] v.k = "bool" -> [ok |-> TRUE, n |-> 100 * v.n]
    [] v.k = "str" -> StrToFloat(v.s)
    [] OTHER -> [ok |-> FALSE, n |-> 0]

float_validator(v) ==
  CASE v.k = "float" -> [ok |-> TRUE, n |-> v.n]
    [] v.k = "int" -> [ok |-> TRUE, n |-> 100 * v.n]
    [] v.k = "bool" -> [ok |-> TRUE, n |-> 100 * v.n]
    [] v.k = "str" -> StrToFloat(v.s)
    [] OTHER -> [ok |-> FALSE, n |-> 0]

StrFields == <<"movie_name", "release_date", "rationale">>
Fields == StrFields \o <<"confidence">>

NoResponse ==
  [movie_name |-> <<>>, release_date |-> <<>>, rationale |-> <<>>, confidence |-> 0]

\* the fields of mems that fail validation, in declaration order
FieldOk(mems, f, v1) ==
  /\ HasKey(mems, <<f>>)
  /\ IF f = "confidence" THEN float_validator(DictGet(mems, <<f>>)).ok
     ELSE str_validator(DictGet(mems, <<f>>), v1).ok

RECURSIVE FieldErrors(_, _, _)
FieldErrors(mems, fs, v1) ==
  IF fs = <<>> THEN <<>>
  ELSE (IF FieldOk(mems, Head(fs), v1) THEN <<>> ELSE <<Name(Head(fs))>>)
       \o FieldErrors(mems, Tail(fs), v1)

\* IdentifyResponse(**result): TypeError when result is not a mapping,
\* ValidationError naming the offending fields, else the model instance.
\* Keys that are not fields are ignored.
IdentifyResponse(result, v1) ==
  IF result.k # "obj"
  THEN [ok |-> FALSE, resp |-> NoResponse,
        msg |-> <<Lit("argument after ** must be a mapping")>>]
  ELSE LET m == result.members
           errs == FieldErrors(m, Fields, v1)
       IN IF errs # <<>>
          THEN [ok |-> FALSE, resp |-> NoResponse,
                msg |-> <<Lit("validation error for IdentifyResponse ")>> \o errs]
          ELSE [ok |-> TRUE,
                resp |-> [movie_name |-> str_validator(DictGet(m, <<"movie_name">>), v1).s,
                          release_date |-> str_validator(DictGet(m, <<"release_date">>), v1).s,
                          rationale |-> str_validator(DictGet(m, <<"rationale">>), v1).s,
                          confidence |-> float_validator(DictGet(m, <<"confidence">>)).n],
                msg |-> <<>>]

\* IdentifyRequest: User_query is a required str with no further constraint
IdentifyRequest_nonempty(body) == body.has_query /\ body.User_query # <<>>

IdentifyRequest(body) == body.has_query

\* -------------------------------------------------------- build_llm_prompt
PromptPrefix ==
  << Lit("You are a world-class movie identification assistant. Given a plot description, you search the internet for clues (even though you rely on your own knowledge) and deduce the most likely movie. You must provide four fields: "),
     Name("movie_name"), Lit(", "), Name("release_date"), Lit(", "),
     Name("rationale"), Lit(", and "), Name("confidence"),
     Lit(". The rationale should explain why the selected movie fits the description, referencing key plot points, actors, or unique elements. Confidence should be a float between 0 and 1 representing your certainty.\n\n"),
     Lit("Plot: ") >>

PromptSuffix ==
  << Lit("\n\n"),
     Lit("Respond with a JSON object using these exact keys: "),
     Name("movie_name"), Lit(", "), Name("release_date"), Lit(", "),
     Name("rationale"), Lit(", "), Name("confidence"), Lit(".") >>

RECURSIVE Escape(_)
Escape(text) ==
  IF text = <<>> THEN <<>>
  ELSE (IF Head(text).s = <<"\"">> THEN <<Chr("\\"), Head(text)>> ELSE <<Head(text)>>)
       \o Escape(Tail(text))

build_llm_prompt_escaped(plot) == PromptPrefix \o Escape(plot) \o PromptSuffix

build_llm_prompt(plot) == PromptPrefix \o plot \o PromptSuffix

\* ------------------------------------------------------- HTTP responses
NoText == <<>>

HTTPException(code, text) ==
  [status |-> code, has_detail |-> TRUE, detail |-> text,
   has_body |-> FALSE, body |-> NoResponse]

\* an exception that leaves the handler uncaught: the server answers 500
\* "Internal Server Error" with no detail
InternalServerError ==
  [status |-> 500, has_detail |-> FALSE, detail |-> NoText,
   has_body |-> FALSE, body |-> NoResponse]

Ok200(resp) ==
  [status |-> 200, has_detail |-> FALSE, detail |-> NoText,
   has_body |-> TRUE, body |-> resp]

\* request validation failure, answered by the framework before the handler
Unprocessable422 ==
  [status |-> 422, has_detail |-> TRUE, detail |-> <<Lit("Field required")>>,
   has_body |-> FALSE, body |-> NoResponse]

NoHttp ==
  [status |-> 0, has_detail |-> FALSE, detail |-> NoText,
   has_body |-> FALSE, body |-> NoResponse]

UpstreamErrorPrefix == Lit("OpenAI API error: ")
ParseErrorPrefix == Lit("Failed to parse response as JSON. Raw response was: ")
ValidationErrorPrefix == Lit("Response JSON missing required fields or invalid types: ")

UpstreamErrorDetail_generic(e) == <<UpstreamErrorPrefix>>

UpstreamErrorDetail(e) == <<UpstreamErrorPrefix>> \o e

ParseErrorDetail_truncated(content) ==
  <<ParseErrorPrefix>> \o
  (IF Len(content) > 1 THEN SubSeq(content, 1, Len(content) - 1) ELSE content)

ParseErrorDetail(content) == <<ParseErrorPrefix>> \o content

ValidationErrorDetail(msg) == <<ValidationErrorPrefix>> \o msg

\* ------------------------------------------------------------- inputs
Alphabet == {Chr("a"), Chr("\""), Chr("{"), Chr("\n")}

RECURSIVE SeqsUpTo(_, _)
SeqsUpTo(S, n) ==
  IF n = 0 THEN {<<>>}
  ELSE LET shorter == SeqsUpTo(S, n - 1)
       IN shorter \cup {Append(q, c) : q \in shorter, c \in S}

Plots == SeqsUpTo(Alphabet, MaxPlotLen)

Body(q) == [has_query |-> TRUE, User_query |-> q]
NoQuery == [has_query |-> FALSE, User_query |-> <<>>]
AnyBody(h, q) == IF h THEN Body(q) ELSE NoQuery
Bodies == {AnyBody(h, q) : h \in BOOLEAN, q \in Plots}

\* the JSON text of an object: each field is absent (<<>>) or the tokens of
\* its value
Member(key, val) ==
  IF val = <<>> THEN <<>> ELSE <<StrTok(<<key>>), P(":")>> \o val

RECURSIVE JoinMembers(_)
JoinMembers(ms) ==
  IF ms = <<>> THEN <<>>
  ELSE LET rest == JoinMembers(Tail(ms)) IN
       IF Head(ms) = <<>> THEN rest
       ELSE IF rest = <<>> THEN Head(ms)
       ELSE Head(ms) \o <<P(",")>> \o rest

ObjText(mn, rd, ra, cf) ==
  <<P("{")>> \o
  JoinMembers(<<Member("movie_name", mn), Member("release_date", rd),
                Member("rationale", ra), Member("confidence", cf)>>)
  \o <<P("}")>>

\* the same text with whitespace around it and after each "," and ":"
RECURSIVE Spaced(_)
Spaced(text) ==
  IF text = <<>> THEN <<>>
  ELSE (IF Head(text).t \in {",", ":"} THEN <<Head(text), Ws(" ")>>
        ELSE <<Head(text)>>) \o Spaced(Tail(text))

Pretty(text) == <<Ws("\n")>> \o Spaced(text) \o <<Ws(" "), Ws("\n")>>

Inception == <<StrTok(<<"Inception">>)>>
ReleaseDate == <<StrTok(<<"2010-07-16">>)>>
DreamHeist == <<StrTok(<<"dream heist">>)>>
Conf087 == <<FloatTok(87)>>

MovieNameOpts == {<<>>, Inception, <<IntTok(7)>>, <<P("null")>>}
ReleaseDateOpts == {<<>>, ReleaseDate, <<P("true")>>}
RationaleOpts == {<<>>, DreamHeist, <<P("["), P("]")>>}
ConfidenceOpts ==
  {<<>>, Conf087, <<FloatTok(-50)>>, <<FloatTok(150)>>, <<IntTok(1)>>,
   <<StrTok(<<"0", ".", "8", "7">>)>>, <<StrTok(<<"high">>)>>,
   <<P("true")>>, <<P("null")>>}

ObjTexts ==
  {ObjText(mn, rd, ra, cf) :
     mn \in MovieNameOpts, rd \in ReleaseDateOpts,
     ra \in RationaleOpts, cf \in ConfidenceOpts}

GoodObj == ObjText(Inception, ReleaseDate, DreamHeist, Conf087)

\* valid JSON objects with extra, repeated and reordered keys
OddObjTexts ==
  { <<P("{")>> \o Member("year", <<IntTok(2010)>>) \o <<P(",")>>
      \o SubSeq(GoodObj, 2, Len(GoodObj)),
    <<P("{")>> \o Member("movie_name", <<StrTok(<<"Tenet">>)>>) \o <<P(",")>>
      \o SubSeq(GoodObj, 2, Len(GoodObj)),
    <<P("{")>> \o Member("confidence", <<FloatTok(5)>>) \o <<P(",")>>
      \o Member("rationale", DreamHeist) \o <<P(",")>>
      \o Member("release_date", ReleaseDate) \o <<P(",")>>
      \o Member("movie_name", Inception) \o <<P("}")>>,
    <<P("{")>> \o Member("movie_name", GoodObj) \o <<P("}")>> }

\* valid JSON that is not an object
NonObjTexts ==
  { <<P("["), P("]")>>,
    <<P("[")>> \o GoodObj \o <<P(","), IntTok(1), P("]")>>,
    Conf087, <<IntTok(7)>>, Inception,
    <<P("true")>>, <<P("false")>>, <<P("null")>> }

\* text that is not valid JSON
BadTexts ==
  { <<>>,
    <<Lit("not json")>>,
    <<Lit("not"), Ws(" "), Lit("json")>>,
    <<Lit("(code fence)json"), Ws("\n")>> \o GoodObj \o <<Ws("\n"), Lit("(code fence)")>>,
    GoodObj \o <<Ws(" "), Lit("Hope this helps!")>>,
    GoodObj \o GoodObj,
    SubSeq(GoodObj, 1, Len(GoodObj) - 1),
    <<P("{"), StrTok(<<"movie_name">>), StrTok(<<"Inception">>), P("}")>>,
    <<P("{"), IntTok(1), P(":"), IntTok(2), P("}")>>,
    <<P("{")>> \o Member("movie_name", Inception) \o <<P(","), P("}")>>,
    <<P("["), IntTok(1), P(","), P("]")>>,
    <<P("["), IntTok(1), IntTok(2), P("]")>>,
    <<P("}")>> }

Cores == ObjTexts \cup OddObjTexts \cup NonObjTexts \cup BadTexts
Texts == {IF pretty THEN Pretty(t) ELSE t : pretty \in BOOLEAN, t \in Cores}

Choice(text) == [has_content |-> TRUE, content |-> text]
NoneChoice == [has_content |-> FALSE, content |-> <<>>]

Raise(msg) == [raises |-> TRUE, msg |-> msg, choices |-> <<>>]
Completion(choices) == [raises |-> FALSE, msg |-> <<>>, choices |-> choices]
NoOutcome == Completion(<<>>)

ErrMsgs ==
  { <<Lit("Connection error.")>>,
    <<Lit("Error code: 401 - "), Lit("Incorrect API key provided")>>,
    <<Lit("Error code: 429 - "), Lit("You exceeded your current quota")>>,
    <<Lit("Error code: 400 - "), Lit("Invalid request")>>,
    <<>> }

\* every upstream outcome of the model: the call raises, or it returns a
\* completion with no choice, with a first choice without content, or with
\* a first choice holding some text
ChoiceLists ==
  { <<>>, <<NoneChoice>>, <<NoneChoice, Choice(GoodObj)>>,
    <<Choice(GoodObj), Choice(<<Lit("not json")>>)>> }

AnyOutcome(kind, m, cs, t) ==
  CASE kind = "raise" -> Raise(m)
    [] kind = "choices" -> Completion(cs)
    [] kind = "text" -> Completion(<<Choice(t)>>)

Outcomes ==
  {AnyOutcome(kind, m, cs, t) :
     kind \in {"raise", "choices", "text"}, m \in ErrMsgs,
     cs \in ChoiceLists, t \in Texts}

\* the smaller inputs of the several-requests specification
ConcBodies == {NoQuery, Body(<<>>), Body(<<Chr("a")>>)}
ConcOutcomes ==
  { Raise(<<Lit("Connection error.")>>),
    Completion(<<NoneChoice>>),
    Completion(<<Choice(<<Lit("not json")>>)>>),
    Completion(<<Choice(Pretty(GoodObj))>>),
    Completion(<<Choice(ObjText(Inception, ReleaseDate, DreamHeist, <<>>))>>),
    Completion(<<Choice(ObjText(<<IntTok(7)>>, ReleaseDate, DreamHeist, <<P("true")>>))>>) }

\* -------------------------------------------------------------- state
Requests == 1..MaxRequests

VARIABLES
  pydantic_v1,  \* which major version of pydantic is installed
  pc,           \* pc[r]: where request r is
  body,         \* body[r]: the JSON body of request r
  prompt,       \* prompt[r]: the local prompt
  completion,   \* completion[r]: the local completion
  content,      \* content[r]: the local content
  result,       \* result[r]: the local result
  response,     \* response[r]: the local response
  http,         \* http[r]: what the client of r receives
  sent,         \* sent[r]: the prompts r has sent upstream, in order
  reply,        \* reply[r]: what the upstream answered to r's call
  trace         \* trace[r]: the stages r has entered, in order

vars == <<pydantic_v1, pc, body, prompt, completion, content, result,
          response, http, sent, reply, trace>>

Init ==
  /\ pydantic_v1 \in BOOLEAN
  /\ pc = [r \in Requests |-> "idle"]
  /\ body = [r \in Requests |-> NoQuery]
  /\ prompt = [r \in Requests |-> <<>>]
  /\ completion = [r \in Requests |-> NoOutcome]
  /\ content = [r \in Requests |-> <<>>]
  /\ result = [r \in Requests |-> JNull]
  /\ response = [r \in Requests |-> NoResponse]
  /\ http = [r \in Requests |-> NoHttp]
  /\ sent = [r \in Requests |-> <<>>]
  /\ reply = [r \in Requests |-> NoOutcome]
  /\ trace = [r \in Requests |-> <<>>]

Enter(r, stage) == trace' = [trace EXCEPT ![r] = Append(@, stage)]

Fail(r, answer) ==
  /\ http' = [http EXCEPT ![r] = answer]
  /\ pc' = [pc EXCEPT ![r] = "done"]

\* a POST /api/identify arrives; the framework validates the body against
\* IdentifyRequest and either answers 422 or calls the handler
Receive(r, B) ==
  /\ pc[r] = "idle"
  /\ \E b \in B :
       /\ body' = [body EXCEPT ![r] = b]
       /\ IF IdentifyRequest(b)
          THEN /\ pc' = [pc EXCEPT ![r] = "build"]
               /\ UNCHANGED http
          ELSE /\ pc' = [pc EXCEPT ![r] = "rejected"]
               /\ http' = [http EXCEPT ![r] = Unprocessable422]
  /\ UNCHANGED <<pydantic_v1, prompt, completion, content, result, response,
                 sent, reply, trace>>

\* prompt = build_llm_prompt(req.User_query)
Build(r) ==
  /\ pc[r] = "build"
  /\ prompt' = [prompt EXCEPT ![r] = build_llm_prompt(body[r].User_query)]
  /\ pc' = [pc EXCEPT ![r] = "call"]
  /\ Enter(r, "Build")
  /\ UNCHANGED <<pydantic_v1, body, completion, content, result, response,
                 http, sent, reply>>

\* a handler that calls the upstream again after an error
CallWithRetry(r, O) ==
  /\ pc[r] = "call"
  /\ \E o \in O :
       /\ sent' = [sent EXCEPT ![r] = Append(@, prompt[r])]
       /\ reply' = [reply EXCEPT ![r] = o]
       /\ Enter(r, "Call")
       /\ IF o.raises
          THEN IF Len(sent[r]) + 1 < 2
               THEN UNCHANGED <<pc, http, completion>>
               ELSE /\ Fail(r, HTTPException(500, UpstreamErrorDetail(o.msg)))
                    /\ UNCHANGED completion
          ELSE /\ completion' = [completion EXCEPT ![r] = o]
               /\ pc' = [pc EXCEPT ![r] = "extract"]
               /\ UNCHANGED http
  /\ UNCHANGED <<pydantic_v1, body, prompt, content, result, response>>

\* a handler that serves a prompt it has seen from the earlier completion
CallCached(r, O) ==
  /\ pc[r] = "call"
  /\ Enter(r, "Call")
  /\ LET hits == {c \in Requests : /\ c # r
                                   /\ pc[c] \notin {"idle", "build", "call", "rejected"}
                                   /\ ~reply[c].raises
                                   /\ prompt[c] = prompt[r]}
     IN IF hits # {}
        THEN /\ completion' = [completion EXCEPT ![r] = completion[CHOOSE c \in hits : TRUE]]
             /\ pc' = [pc EXCEPT ![r] = "extract"]
             /\ UNCHANGED <<http, sent, reply>>
        ELSE \E o \in O :
             /\ sent' = [sent EXCEPT ![r] = Append(@, prompt[r])]
             /\ reply' = [reply EXCEPT ![r] = o]
             /\ IF o.raises
                THEN /\ Fail(r, HTTPException(500, UpstreamErrorDetail(o.msg)))
                     /\ UNCHANGED completion
                ELSE /\ completion' = [completion EXCEPT ![r] = o]
                     /\ pc' = [pc EXCEPT ![r] = "extract"]
                     /\ UNCHANGED http
  /\ UNCHANGED <<pydantic_v1, body, prompt, content, result, response>>

\* completion = openai.chat.completions.create(...); any Exception it raises
\* becomes HTTPException(500, "OpenAI API error: {e}")
Call(r, O) ==
  /\ pc[r] = "call"
  /\ \E o \in O :
       /\ sent' = [sent EXCEPT ![r] = Append(@, prompt[r])]
       /\ reply' = [reply EXCEPT ![r] = o]
       /\ Enter(r, "Call")
       /\ IF o.raises
          THEN /\ Fail(r, HTTPException(500, UpstreamErrorDetail(o.msg)))
               /\ UNCHANGED completion
          ELSE /\ completion' = [completion EXCEPT ![r] = o]
               /\ pc' = [pc EXCEPT ![r] = "extract"]
               /\ UNCHANGED http
  /\ UNCHANGED <<pydantic_v1, body, prompt, content, result, response>>

\* content = completion.choices[0].message.content.strip(), outside any try:
\* IndexError on an empty choices list and AttributeError on a None content
\* leave the handler uncaught
Extract(r) ==
  /\ pc[r] = "extract"
  /\ Enter(r, "Extract")
  /\ LET choices == completion[r].choices IN
     IF choices = <<>> \/ ~choices[1].has_content
     THEN /\ Fail(r, InternalServerError)
          /\ UNCHANGED content
     ELSE /\ content' = [content EXCEPT ![r] = Strip(choices[1].content)]
          /\ pc' = [pc EXCEPT ![r] = "parse"]
          /\ UNCHANGED http
  /\ UNCHANGED <<pydantic_v1, body, prompt, completion, result, response,
                 sent, reply>>

\* result = json.loads(content); json.JSONDecodeError becomes
\* HTTPException(500, "Failed to parse response as JSON. ..." + content)
Parse(r) ==
  /\ pc[r] = "parse"
  /\ Enter(r, "Parse")
  /\ LET p == json_loads(content[r]) IN
     IF p.ok
     THEN /\ result' = [result EXCEPT ![r] = p.val]
          /\ pc' = [pc EXCEPT ![r] = "validate"]
          /\ UNCHANGED http
     ELSE /\ Fail(r, HTTPException(500, ParseErrorDetail(content[r])))
          /\ UNCHANGED result
  /\ UNCHANGED <<pydantic_v1, body, prompt, completion, content, response,
                 sent, reply>>

\* response = IdentifyResponse(**result); any Exception becomes
\* HTTPException(500, "Response JSON missing required fields ...: {exc}")
Validate(r) ==
  /\ pc[r] = "validate"
  /\ Enter(r, "Validate")
  /\ LET v == IdentifyResponse(result[r], pydantic_v1) IN
     IF v.ok
     THEN /\ response' = [response EXCEPT ![r] = v.resp]
          /\ pc' = [pc EXCEPT ![r] = "return"]
          /\ UNCHANGED http
     ELSE /\ Fail(r, HTTPException(500, ValidationErrorDetail(v.msg)))
          /\ UNCHANGED response
  /\ UNCHANGED <<pydantic_v1, body, prompt, completion, content, result,
                 sent, reply>>

\* return response
Return(r) ==
  /\ pc[r] = "return"
  /\ Enter(r, "Return")
  /\ http' = [http EXCEPT ![r] = Ok200(response[r])]
  /\ pc' = [pc EXCEPT ![r] = "done"]
  /\ UNCHANGED <<pydantic_v1, body, prompt, completion, content, result,
                 response, sent, reply>>

\* one request, every input of the model
Next ==
  \/ Receive(1, Bodies)
  \/ Build(1)
  \/ Call(1, Outcomes)
  \/ Extract(1)
  \/ Parse(1)
  \/ Validate(1)
  \/ Return(1)

Spec == Init /\ [][Next]_vars

\* several requests in flight, their steps interleaved in any order
NextConc ==
  \E r \in Requests :
    \/ Receive(r, ConcBodies)
    \/ Build(r)
    \/ Call(r, ConcOutcomes)
    \/ Extract(r)
    \/ Parse(r)
    \/ Validate(r)
    \/ Return(r)

SpecConc == Init /\ [][NextConc]_vars

\* ------------------------------------------------------ shared predicates
Stages == <<"Build", "Call", "Extract", "Parse", "Validate", "Return">>

IsPrefix(a, b) == Len(a) <= Len(b) /\ a = SubSeq(b, 1, Len(a))

Contains(text, sub) ==
  \E i \in 1..(Len(text) - Len(sub) + 1) : SubSeq(text, i, i + Len(sub) - 1) = sub

Entered(r, stage) == \E i \in 1..Len(trace[r]) : trace[r][i] = stage

Is500Kind(h, prefix) ==
  /\ h.status = 500
  /\ h.has_detail
  /\ ~h.has_body
  /\ h.detail # <<>>
  /\ h.detail[1] = prefix

Is200(h) == h.status = 200 /\ h.has_body /\ ~h.has_detail

HasText(o) == ~o.raises /\ o.choices # <<>> /\ o.choices[1].has_content

\* the trimmed texts of the inputs, by what they are
BadTrimmed == {IF sp THEN Spaced(t) ELSE t : sp \in BOOLEAN, t \in BadTexts}
NonObjTrimmed == {IF sp THEN Spaced(t) ELSE t : sp \in BOOLEAN, t \in NonObjTexts}

\* a parsed object with the four fields, each of its stated primitive type
ShapeValid(v) ==
  /\ v.k = "obj"
  /\ \A i \in 1..Len(StrFields) :
       /\ HasKey(v.members, <<StrFields[i]>>)
       /\ DictGet(v.members, <<StrFields[i]>>).k = "str"
  /\ HasKey(v.members, <<"confidence">>)
  /\ DictGet(v.members, <<"confidence">>).k \in {"int", "float"}

\* what identify_movie answers to an upstream outcome, as one function
Answer(o, v1) ==
  IF o.raises THEN HTTPException(500, <<UpstreamErrorPrefix>> \o o.msg)
  ELSE IF ~HasText(o) THEN InternalServerError
  ELSE LET c == Strip(o.choices[1].content)
           p == json_loads(c)
       IN IF ~p.ok THEN HTTPException(500, <<ParseErrorPrefix>> \o c)
          ELSE LET v == IdentifyResponse(p.val, v1)
               IN IF v.ok THEN Ok200(v.resp)
                  ELSE HTTPException(500, <<ValidationErrorPrefix>> \o v.msg)

\* ------------------------------------------------------------------ C1
\* C1: every handled request ends with HTTP 200 and an IdentifyResponse, or
\* with HTTP 500 whose detail is of one of the three kinds (upstream error,
\* JSON parse failure, schema validation failure); nothing else.
C1_TwoEndings ==
  \A r \in Requests :
    pc[r] = "done" =>
      \/ Is200(http[r])
      \/ Is500Kind(http[r], UpstreamErrorPrefix)
      \/ Is500Kind(http[r], ParseErrorPrefix)
      \/ Is500Kind(http[r], ValidationErrorPrefix)

\* ------------------------------------------------------------------ C2
\* C2: when the upstream call raises, the request ends with status 500, the
\* upstream-error detail containing the error's message, and the extract,
\* parse and validate stages never run.
C2_UpstreamError ==
  \A r \in Requests :
    (Entered(r, "Call") /\ reply[r].raises) =>
      /\ pc[r] = "done"
      /\ Is500Kind(http[r], UpstreamErrorPrefix)
      /\ Contains(http[r].detail, reply[r].msg)
      /\ trace[r] = <<"Build", "Call">>

C2_Witness ==
  /\ pc[1] = "done"
  /\ reply[1].raises
  /\ Len(reply[1].msg) = 2

\* ------------------------------------------------------------------ C3
\* C3: when the call succeeds and the trimmed text is not valid JSON, the
\* request ends with status 500, the parse-failure detail containing the
\* whole trimmed text, and validation is never attempted.
C3_MalformedResponse ==
  \A r \in Requests :
    (pc[r] = "done" /\ HasText(reply[r])
       /\ Strip(reply[r].choices[1].content) \in BadTrimmed) =>
      /\ Is500Kind(http[r], ParseErrorPrefix)
      /\ Contains(http[r].detail, Strip(reply[r].choices[1].content))
      /\ ~Entered(r, "Validate")
      /\ trace[r] = <<"Build", "Call", "Extract", "Parse">>

C3_Witness ==
  /\ pc[1] = "done"
  /\ HasText(reply[1])
  /\ reply[1].choices[1].content # Strip(reply[1].choices[1].content)
  /\ Strip(reply[1].choices[1].content) \in BadTrimmed
  /\ Len(Strip(reply[1].choices[1].content)) > 2

\* ------------------------------------------------------------------ C4
\* C4 as stated: a parsed object in which one of the four fields is absent
\* or not of its stated primitive type always ends with the
\* schema-validation 500.
C4_StrictTypes ==
  \A r \in Requests :
    (pc[r] = "done" /\ Entered(r, "Validate") /\ result[r].k = "obj"
       /\ ~ShapeValid(result[r])) =>
      Is500Kind(http[r], ValidationErrorPrefix)

\* a value no version of the validator converts to the type of field f
Unconvertible(f, v) ==
  IF f = "confidence"
  THEN \/ v.k \in {"null", "arr", "obj"}
       \/ v.k = "str" /\ ~StrToFloat(v.s).ok
  ELSE v.k \in {"null", "arr", "obj"}

\* a value the validator takes for field f: of the stated type, or one it
\* converts
Convertible(f, v) ==
  IF f = "confidence"
  THEN \/ v.k \in {"int", "float", "bool"}
       \/ v.k = "str" /\ StrToFloat(v.s).ok
  ELSE \/ v.k = "str"
       \/ v.k \in {"int", "float", "bool"} /\ pydantic_v1

\* C4 amended: an absent field, or a null, array, object or (for confidence)
\* non-numeric string value, always ends with the schema-validation 500 and
\* no body; a 200 is returned only when all four fields are present and each
\* is of its stated type or a value the validator converts to it (a numeric
\* string or boolean confidence; a number or boolean in a string field only
\* under pydantic 1.x).
C4_Amended ==
  \A r \in Requests :
    (pc[r] = "done" /\ Entered(r, "Validate") /\ result[r].k = "obj") =>
      LET m == result[r].members IN
      /\ (\E i \in 1..Len(Fields) :
            \/ ~HasKey(m, <<Fields[i]>>)
            \/ Unconvertible(Fields[i], DictGet(m, <<Fields[i]>>)))
           => Is500Kind(http[r], ValidationErrorPrefix)
      /\ Is200(http[r]) =>
           \A i \in 1..Len(Fields) :
             /\ HasKey(m, <<Fields[i]>>)
             /\ Convertible(Fields[i], DictGet(m, <<Fields[i]>>))
      /\ Is200(http[r]) \/ Is500Kind(http[r], ValidationErrorPrefix)

C4_Witness ==
  /\ pc[1] = "done"
  /\ Is200(http[1])
  /\ result[1].k = "obj"
  /\ HasKey(result[1].members, <<"confidence">>)
  /\ DictGet(result[1].members, <<"confidence">>).k = "str"
  /\ http[1].body.confidence = 87

\* ------------------------------------------------------------------ C5
\* C5: a shape-valid object is returned with its four values as received:
\* confidence is not clamped or range-checked, release_date not normalized.
C5_PassThrough ==
  \A r \in Requests :
    (pc[r] = "done" /\ Entered(r, "Validate") /\ ShapeValid(result[r])) =>
      LET m == result[r].members
          cf == DictGet(m, <<"confidence">>)
      IN /\ Is200(http[r])
         /\ http[r].body.movie_name = DictGet(m, <<"movie_name">>).s
         /\ http[r].body.release_date = DictGet(m, <<"release_date">>).s
         /\ http[r].body.rationale = DictGet(m, <<"rationale">>).s
         /\ http[r].body.confidence = IF cf.k = "int" THEN 100 * cf.n ELSE cf.n

C5_Witness ==
  /\ pc[1] = "done"
  /\ Is200(http[1])
  /\ ShapeValid(result[1])
  /\ http[1].body.confidence = 150
  /\ http[1].body.release_date = <<"2010-07-16">>

\* ------------------------------------------------------------------ C6
PromptBuilt(r) == pc[r] \notin {"idle", "rejected", "build"}

NamesIn(text) == {text[i].s[1] : i \in {j \in 1..Len(text) : text[j].t = "name"}}

\* C6: the prompt of a plot p is the fixed prefix, then p verbatim, then the
\* fixed suffix, and the suffix names exactly the four keys.
C6_PromptShape ==
  \A r \in Requests :
    PromptBuilt(r) =>
      LET p == body[r].User_query
          a == Len(PromptPrefix)
          z == Len(PromptSuffix)
      IN /\ Len(prompt[r]) = a + Len(p) + z
         /\ SubSeq(prompt[r], 1, a) = PromptPrefix
         /\ SubSeq(prompt[r], a + 1, a + Len(p)) = p
         /\ SubSeq(prompt[r], a + Len(p) + 1, Len(prompt[r])) = PromptSuffix
         /\ NamesIn(SubSeq(prompt[r], a + Len(p) + 1, Len(prompt[r])))
              = {"movie_name", "release_date", "rationale", "confidence"}

C6_Witness ==
  /\ PromptBuilt(1)
  /\ Len(body[1].User_query) = 2
  /\ body[1].User_query[1] = Chr("\"")
  /\ body[1].User_query[2] = Chr("\n")

\* ------------------------------------------------------------------ C7
\* C7: a request with an empty User_query is not rejected: its prompt is
\* built, the upstream call is issued once with that prompt, and it ends
\* with the answer the upstream reply determines.
C7_EmptyQuery ==
  \A r \in Requests :
    (pc[r] # "idle" /\ body[r] = Body(<<>>)) =>
      /\ pc[r] # "rejected"
      /\ http[r].status # 422
      /\ IsPrefix(trace[r], Stages)
      /\ PromptBuilt(r) => prompt[r] = PromptPrefix \o PromptSuffix
      /\ Entered(r, "Call") => sent[r] = <<PromptPrefix \o PromptSuffix>>
      /\ pc[r] = "done" => http[r] = Answer(reply[r], pydantic_v1)

C7_Witness ==
  /\ pc[1] = "done"
  /\ body[1] = Body(<<>>)
  /\ Is200(http[1])

\* ------------------------------------------------------------------ C8
\* C8: a request enters the stages Build, Call, Extract, Parse, Validate,
\* Return in that order, none twice, issues the upstream call at most once,
\* and the stage that fails is the last one it enters.
C8_StagesInOrder ==
  \A r \in Requests :
    /\ IsPrefix(trace[r], Stages)
    /\ Len(sent[r]) <= 1
    /\ Len(sent[r]) = 1 <=> Entered(r, "Call")
    /\ pc[r] = "done" =>
         /\ Is500Kind(http[r], UpstreamErrorPrefix) => trace[r] = SubSeq(Stages, 1, 2)
         /\ (http[r].status = 500 /\ ~http[r].has_detail) => trace[r] = SubSeq(Stages, 1, 3)
         /\ Is500Kind(http[r], ParseErrorPrefix) => trace[r] = SubSeq(Stages, 1, 4)
         /\ Is500Kind(http[r], ValidationErrorPrefix) => trace[r] = SubSeq(Stages, 1, 5)
         /\ Is200(http[r]) => trace[r] = Stages
    /\ pc[r] # "done" => http[r].status \in {0, 422}

C8_Witness ==
  /\ pc[1] = "done"
  /\ Is500Kind(http[1], ValidationErrorPrefix)
  /\ trace[1] = SubSeq(Stages, 1, 5)

\* ------------------------------------------------------------------ C9
\* C9: with several requests in flight, every request that passes the call
\* stage has issued its own upstream call with its own prompt, and its
\* answer is the one its own reply determines.
C9_Independent ==
  \A r \in Requests :
    /\ Entered(r, "Call") =>
         sent[r] = <<PromptPrefix \o body[r].User_query \o PromptSuffix>>
    /\ pc[r] = "done" => http[r] = Answer(reply[r], pydantic_v1)

C9_Witness ==
  \E a, b \in Requests :
    /\ a # b
    /\ pc[a] = "done" /\ pc[b] = "done"
    /\ body[a] = body[b]
    /\ Is200(http[a])
    /\ Is500Kind(http[b], ParseErrorPrefix)
    /\ sent[a] = sent[b]

\* ------------------------------------------------------------------ C10
\* C10: trimmed text that is valid JSON but not an object passes the parse
\* stage and ends with the schema-validation 500; the parse-failure 500 is
\* given only for text that is not valid JSON.
C10_NonObject ==
  \A r \in Requests :
    (pc[r] = "done" /\ HasText(reply[r])) =>
      LET c == Strip(reply[r].choices[1].content) IN
      /\ c \in NonObjTrimmed =>
           /\ Entered(r, "Validate")
           /\ Is500Kind(http[r], ValidationErrorPrefix)
      /\ Is500Kind(http[r], ParseErrorPrefix) => c \in BadTrimmed

C10_Witness ==
  /\ pc[1] = "done"
  /\ HasText(reply[1])
  /\ Strip(reply[1].choices[1].content) = <<P("["), P("]")>>
  /\ Is500Kind(http[1], ValidationErrorPrefix)

====
